---- MODULE Spec2Model ----
(***************************************************************************)
(* Model of the WhatsApp insights tool: the order adapter                  *)
(* (whatsapp_integration/core.py) appends one ledger line per item of an   *)
(* order message, and generate_insights (data_ingestion.py) derives the    *)
(* insight bundle from the ledger.                                         *)
(*                                                                         *)
(* A date is a day number counted from a Monday (day 0 is a Monday), so    *)
(* that d % 7 is datetime.weekday().  A ledger line is the record          *)
(* [date, customer, item, quantity, raw_message]; raw_message, the text of *)
(* the chat line, is modelled by the parsed content of that line, so that  *)
(* the lines of one order message share it.                                *)
(*                                                                         *)
(* lines holds the chat lines the adapter has read so far, calls counts    *)
(* the calls of generate_insights, and error is the exception a call       *)
(* ended with ("" when none).                                              *)
(*                                                                         *)
(* session holds, for each browser session running the app script, where   *)
(* the script is and its local values; temp_chat is the content of the     *)
(* file temp_chat.txt of the working directory, which all sessions share.  *)
(***************************************************************************)
EXTENDS Integers, Sequences, FiniteSets, TLC

VARIABLES order_df, insights, pc, lines, calls, error, temp_chat, session

vars == <<order_df, insights, pc, lines, calls, error, temp_chat, session>>

----------------------------------------------------------------------------
(* Bounds of the model *)

MaxLines == 3
MaxTrendLines == 4
MaxLifeLines == 3
MaxRankQty == 2
MaxCalls == 2
MaxPermLines == 3
MaxParseLines == 2
MaxVizLines == 3

(* Program constants *)

TREND_WEEKS == 3
TOP_N == 5
stock_threshold == 10
PLACEHOLDER_STOCK == 8
RETENTION_DAYS == 14
QUICK_CHURN_DAYS == 7
DAYS_PER_WEEK == 7

----------------------------------------------------------------------------
(* Python's str ordering, which pandas' groupby uses to sort its keys,     *)
(* on the names the model uses.                                            *)

KnownNames == <<"", "Alice", "Biryani", "Bob", "Curry", "Naan", "Rice", "Salad", "Soda">>

StrKey(s) == CHOOSE i \in DOMAIN KnownNames : KnownNames[i] = s

RECURSIVE SortedInts(_)
SortedInts(S) ==
    IF S = {} THEN <<>>
    ELSE LET m == CHOOSE x \in S : \A y \in S : x <= y
         IN  <<m>> \o SortedInts(S \ {m})

SortedNames(S) ==
    LET keys == SortedInts({StrKey(x) : x \in S})
    IN  [k \in DOMAIN keys |-> KnownNames[keys[k]]]

RECURSIVE SumQuantity(_)
SumQuantity(rows) ==
    IF rows = <<>> THEN 0 ELSE Head(rows).quantity + SumQuantity(Tail(rows))

SetMax(S) == CHOOSE x \in S : \A y \in S : y <= x
SetMin(S) == CHOOSE x \in S : \A y \in S : x <= y

----------------------------------------------------------------------------
(* generate_insights, line by line *)

(* Faulty variant: weeks that run from Sunday to Saturday *)
to_period_W_sunday(d) == d - ((d + 1) % DAYS_PER_WEEK)

to_period_W(d) == d - (d % DAYS_PER_WEEK)

(* order_df['week'] = ...: the week column is written onto the ledger *)
(* Faulty variant: a week column already on the table is kept *)
with_week_keeps(df) ==
    [i \in DOMAIN df |->
        [f \in DOMAIN df[i] \cup {"week"} |->
            IF f = "week" /\ "week" \notin DOMAIN df[i]
            THEN to_period_W(df[i].date) ELSE df[i][f]]]

with_week(df) ==
    [i \in DOMAIN df |->
        [f \in DOMAIN df[i] \cup {"week"} |->
            IF f = "week" THEN to_period_W(df[i].date) ELSE df[i][f]]]

WeekColumns(df) == SortedInts({df[i].week : i \in DOMAIN df})

(* Faulty variant: groupby(sort=False), the items in order of appearance *)
ItemIndex_appearance(df) ==
    LET first(item) == SetMin({i \in DOMAIN df : df[i].item = item})
        keys == SortedInts({first(df[i].item) : i \in DOMAIN df})
    IN  [k \in DOMAIN keys |-> df[keys[k]].item]

ItemIndex(df) == SortedNames({df[i].item : i \in DOMAIN df})

GroupRows(df, item, week) ==
    SelectSeq(df, LAMBDA r : r.item = item /\ r.week = week)

FillValue == 0

item_trends(df) ==
    LET columns == WeekColumns(df)
    IN  [item \in {df[i].item : i \in DOMAIN df} |->
            [k \in DOMAIN columns |->
                LET group == GroupRows(df, item, columns[k])
                IN  IF group = <<>> THEN FillValue ELSE SumQuantity(group)]]

tail(s, n) == IF Len(s) <= n THEN s ELSE SubSeq(s, Len(s) - n + 1, Len(s))

(* Faulty variant: a plateau before the last week counts as increasing *)
IsIncreasing_plateau(trend) ==
    Len(trend) = TREND_WEEKS /\ trend[3] > trend[2] /\ trend[2] >= trend[1]

IsIncreasing(trend) ==
    Len(trend) = TREND_WEEKS /\ trend[3] > trend[2] /\ trend[2] > trend[1]

increasing_items(df) ==
    LET index == ItemIndex(df)
        trends == item_trends(df)
        all == [k \in DOMAIN index |-> <<index[k], tail(trends[index[k]], TREND_WEEKS)>>]
    IN  SelectSeq(all, LAMBDA e : IsIncreasing(e[2]))

ItemTotals(df) ==
    LET index == ItemIndex(df)
    IN  [k \in DOMAIN index |->
            <<index[k], SumQuantity(SelectSeq(df, LAMBDA r : r.item = index[k]))>>]

RemoveAt(s, i) == SubSeq(s, 1, i - 1) \o SubSeq(s, i + 1, Len(s))

(* sort_values(ascending=False): among equal totals the grouping order is  *)
(* kept, as numpy's sort does on the short arrays of the model.            *)
RECURSIVE sort_values_desc(_)
sort_values_desc(s) ==
    IF s = <<>> THEN <<>>
    ELSE LET i == CHOOSE i \in DOMAIN s :
                      \A j \in DOMAIN s :
                          \/ s[j][2] < s[i][2]
                          \/ (s[j][2] = s[i][2] /\ i <= j)
         IN  <<s[i]>> \o sort_values_desc(RemoveAt(s, i))

head(s, n) == IF Len(s) <= n THEN s ELSE SubSeq(s, 1, n)

(* Faulty variant: the first TOP_N items of the grouping, without the sort *)
top_items_unsorted(df) == head(ItemTotals(df), TOP_N)

top_items(df) == head(sort_values_desc(ItemTotals(df)), TOP_N)

(* Faulty variant: a stock entry for every item of the ledger *)
current_stock_all(df) ==
    LET all == ItemTotals(df)
    IN  [k \in DOMAIN all |-> <<all[k][1], PLACEHOLDER_STOCK>>]

current_stock(df) ==
    LET top == top_items(df)
    IN  [k \in DOMAIN top |-> <<top[k][1], PLACEHOLDER_STOCK>>]

low_stock_items(df) == SelectSeq(current_stock(df), LAMBDA e : e[2] < stock_threshold)

(* Faulty variant: the reference date is a day after the ledger's last order *)
now_later(df) == SetMax({df[i].date : i \in DOMAIN df}) + RETENTION_DAYS + 1

now(df) == SetMax({df[i].date : i \in DOMAIN df})

CustomerIndex(df) == SortedNames({df[i].customer : i \in DOMAIN df})

customer_orders(df) ==
    LET index == CustomerIndex(df)
    IN  [k \in DOMAIN index |->
            LET rows == SelectSeq(df, LAMBDA r : r.customer = index[k])
                dates == {rows[i].date : i \in DOMAIN rows}
            IN  [customer |-> index[k],
                 min |-> SetMin(dates),
                 max |-> SetMax(dates),
                 count |-> Len(rows),
                 days_since_last_order |-> now(df) - SetMax(dates)]]

(* Faulty variant: the 14th day is no longer retained *)
retained_before(df) ==
    SelectSeq(customer_orders(df), LAMBDA row : row.days_since_last_order < RETENTION_DAYS)

retained(df) ==
    SelectSeq(customer_orders(df), LAMBDA row : row.days_since_last_order <= RETENTION_DAYS)

(* Faulty variant: the 14th day is already churned *)
churned_from(df) ==
    SelectSeq(customer_orders(df), LAMBDA row : row.days_since_last_order >= RETENTION_DAYS)

churned(df) ==
    SelectSeq(customer_orders(df), LAMBDA row : row.days_since_last_order > RETENTION_DAYS)

(* Faulty variant: a lifetime of exactly a week is still a quick churn *)
ChurnType_week(row) ==
    IF row.count = 1 THEN "Trial"
    ELSE IF row.max - row.min <= QUICK_CHURN_DAYS THEN "Quick Churn"
    ELSE "Slow Churn"

ChurnType(row) ==
    IF row.count = 1 THEN "Trial"
    ELSE IF row.max - row.min < QUICK_CHURN_DAYS THEN "Quick Churn"
    ELSE "Slow Churn"

churn_types(df) ==
    LET rows == churned(df)
    IN  [k \in DOMAIN rows |-> <<rows[k].customer, ChurnType(rows[k])>>]

retained_customers(df) ==
    LET rows == retained(df)
    IN  [k \in DOMAIN rows |-> rows[k].customer]

PairKey(p) == StrKey(p[1]) * (Len(KnownNames) + 1) + StrKey(p[2])

SortedPairs(S) ==
    LET keys == SortedInts({PairKey(p) : p \in S})
    IN  [k \in DOMAIN keys |-> CHOOSE p \in S : PairKey(p) = keys[k]]

(* Faulty variant: the count of a pair is its number of distinct order dates *)
reorder_counts_dates(df) ==
    LET pairs == SortedPairs({<<df[i].customer, df[i].item>> : i \in DOMAIN df})
    IN  [k \in DOMAIN pairs |->
            [customer |-> pairs[k][1],
             item |-> pairs[k][2],
             order_count |-> Cardinality({df[j].date : j \in {i \in DOMAIN df :
                                 df[i].customer = pairs[k][1] /\ df[i].item = pairs[k][2]}})]]

reorder_counts(df) ==
    LET pairs == SortedPairs({<<df[i].customer, df[i].item>> : i \in DOMAIN df})
    IN  [k \in DOMAIN pairs |->
            [customer |-> pairs[k][1],
             item |-> pairs[k][2],
             order_count |-> Cardinality({j \in DOMAIN df :
                                 df[j].customer = pairs[k][1] /\ df[j].item = pairs[k][2]})]]

reordered_items(df) == SelectSeq(reorder_counts(df), LAMBDA e : e.order_count > 1)

(* Faulty variant: the list of reordered items outlives the call and each  *)
(* call appends to it                                                      *)
generate_insights_keeps_list(df) ==
    [increasing_items |-> increasing_items(df),
     top_items |-> top_items(df),
     low_stock |-> low_stock_items(df),
     retained_customers |-> retained_customers(df),
     churned_customers |-> churn_types(df),
     reordered_items |->
         (IF calls = 0 THEN <<>> ELSE insights.reordered_items) \o reordered_items(df)]

generate_insights(df) ==
    [increasing_items |-> increasing_items(df),
     top_items |-> top_items(df),
     low_stock |-> low_stock_items(df),
     retained_customers |-> retained_customers(df),
     churned_customers |-> churn_types(df),
     reordered_items |-> reordered_items(df)]

----------------------------------------------------------------------------
(* The order adapter: one ledger line per item of an order message *)

OrderLines(msg) ==
    [k \in DOMAIN msg.items |->
        [date |-> msg.date, customer |-> msg.name,
         item |-> msg.items[k][1], quantity |-> msg.items[k][2],
         raw_message |-> msg]]

Messages(names, dates, itemLists) ==
    [items : itemLists, name : names, date : dates]

ItemLists(items, qtys, maxItems) ==
    UNION {[1..n -> items \X qtys] : n \in 1..maxItems}

----------------------------------------------------------------------------
(* The order adapter on text: WhatsAppIntegration.extract_orders_from_text.
   A text line is a record: form "order" is a line the order pattern matches,
   'Order: <parts, comma separated> | Name: <name> | Date: <date>', and form
   "chat" is any line it does not match.  A part of form "qty_item" is the
   text '<qty> <item>'; form "words" is a part with no leading number.  A date
   text of form "iso" is the ten characters YYYY-MM-DD (four, two and two
   digits); form "words" is a text without digits. *)

NoDate == -1

IsLeap(y) == (y % 4 = 0 /\ y % 100 # 0) \/ y % 400 = 0

DaysInMonth(y, m) ==
    IF m = 2 THEN (IF IsLeap(y) THEN 29 ELSE 28)
    ELSE IF m \in {4, 6, 9, 11} THEN 30 ELSE 31

RECURSIVE DaysBeforeMonth(_, _)
DaysBeforeMonth(y, m) ==
    IF m = 1 THEN 0 ELSE DaysBeforeMonth(y, m - 1) + DaysInMonth(y, m - 1)

(* datetime(y, m, d) as a day number: day 0 is Monday 0001-01-01 *)
DayNumber(y, m, d) ==
    LET py == y - 1
    IN  py * 365 + (py \div 4) - (py \div 100) + (py \div 400)
            + DaysBeforeMonth(y, m) + (d - 1)

(* strptime(part, fmt) for the three fields a format reads *)
strptime(year, month, day) ==
    IF /\ year >= 1
       /\ month \in 1..12
       /\ day >= 1
       /\ day <= DaysInMonth(year, month)
    THEN DayNumber(year, month, day)
    ELSE NoDate

(* %y: a two-digit year, 69..99 in the 1900s and 00..68 in the 2000s *)
TwoDigitYear(yy) == IF yy <= 68 THEN 2000 + yy ELSE 1900 + yy

(* parse_date on YYYY-MM-DD: the second pattern finds 'yy-MM-DD' (the last
   two digits of the year onwards) and "%m-%d-%y" reads it as month yy, day
   MM, year DD; when that fails the third pattern finds the whole text and
   "%Y-%m-%d" reads it. *)
parse_date(date_str) ==
    IF date_str.form # "iso" THEN NoDate
    ELSE LET second == strptime(TwoDigitYear(date_str.d), date_str.y % 100, date_str.m)
         IN  IF second # NoDate THEN second
             ELSE strptime(date_str.y, date_str.m, date_str.d)

parse_items(item_parts) ==
    LET matched == SelectSeq(item_parts, LAMBDA part : part.form = "qty_item")
    IN  [k \in DOMAIN matched |-> <<matched[k].item, matched[k].qty>>]

(* Faulty variant: the date guard of the loop body is missing *)
LineOrders_no_date_guard(line) ==
    IF line.form # "order" THEN <<>>
    ELSE LET date == parse_date(line.date)
             items == parse_items(line.parts)
         IN  [k \in DOMAIN items |->
                 [date |-> date, customer |-> line.name,
                  item |-> items[k][1], quantity |-> items[k][2],
                  raw_message |-> line]]

(* the body of the loop over the lines: the records one line appends *)
LineOrders(line) ==
    IF line.form # "order" THEN <<>>
    ELSE LET date == parse_date(line.date)
             items == parse_items(line.parts)
         IN  IF date = NoDate THEN <<>>
             ELSE [k \in DOMAIN items |->
                     [date |-> date, customer |-> line.name,
                      item |-> items[k][1], quantity |-> items[k][2],
                      raw_message |-> line]]

RECURSIVE extract_orders_from_text(_)
extract_orders_from_text(text) ==
    IF text = <<>> THEN <<>>
    ELSE LineOrders(Head(text)) \o extract_orders_from_text(Tail(text))

----------------------------------------------------------------------------
(* WhatsAppVisualizations: what the plot functions write on the table they
   are given *)

DayNames == <<"Monday", "Tuesday", "Wednesday", "Thursday", "Friday", "Saturday", "Sunday">>

day_name(d) == DayNames[(d % DAYS_PER_WEEK) + 1]

(* the year holding day number d *)
YearOf(d) ==
    CHOOSE y \in ((d \div 366) + 1)..((d \div 365) + 1) :
        DayNumber(y, 1, 1) <= d /\ d < DayNumber(y + 1, 1, 1)

(* isocalendar().week: the number, within its year, of the week's Thursday *)
isocalendar_week(d) ==
    LET thursday == d - (d % DAYS_PER_WEEK) + 3
    IN  ((thursday - DayNumber(YearOf(thursday), 1, 1)) \div DAYS_PER_WEEK) + 1

plot_item_heatmap(df) ==
    [i \in DOMAIN df |->
        [f \in DOMAIN df[i] \cup {"day_of_week", "week"} |->
            IF f = "day_of_week" THEN day_name(df[i].date)
            ELSE IF f = "week" THEN isocalendar_week(df[i].date)
            ELSE df[i][f]]]

plot_item_trends(df) == with_week(df)

----------------------------------------------------------------------------
(* integrate_whatsapp_export and the app script, one run per session *)

Sessions == {1, 2}

RECURSIVE parse_exported_chat(_)
parse_exported_chat(file_lines) ==
    IF file_lines = <<>> THEN <<>>
    ELSE LineOrders(Head(file_lines)) \o parse_exported_chat(Tail(file_lines))

(* Faulty variant: a pasted order already found in the file is left out *)
all_orders_dedup(orders_from_file, orders_from_text) ==
    orders_from_file \o
        SelectSeq(orders_from_text,
                  LAMBDA o : \A k \in DOMAIN orders_from_file : orders_from_file[k] # o)

all_orders(orders_from_file, orders_from_text) == orders_from_file \o orders_from_text

(* Faulty variant: a table is returned even when no order was found *)
ReturnsNone_never(orders) == FALSE

(* 'if all_orders:' fails on the empty list and the function returns None *)
ReturnsNone(orders) == orders = <<>>

IdleSession ==
    [pc |-> "start", has_chat |-> FALSE, uploaded_chat |-> <<>>,
     whatsapp_input |-> <<>>, uploaded_zelle |-> FALSE,
     orders_from_file |-> <<>>, orders_from_text |-> <<>>,
     whatsapp_df |-> <<>>, is_None |-> TRUE, insights |-> <<>>]

----------------------------------------------------------------------------
(* Actions *)

Init ==
    /\ order_df = <<>>
    /\ insights = <<>>
    /\ pc = "ingest"
    /\ lines = <<>>
    /\ calls = 0
    /\ error = ""
    /\ temp_chat = <<>>
    /\ session = [s \in Sessions |-> IdleSession]

ExtractOrder(msg, maxLines) ==
    /\ pc = "ingest"
    /\ Len(order_df) + Len(msg.items) <= maxLines
    /\ order_df' = order_df \o OrderLines(msg)
    /\ lines' = Append(lines, msg)
    /\ UNCHANGED <<insights, pc, calls, error, temp_chat, session>>

(* A call of generate_insights.  A table built from no records has no     *)
(* columns, so that order_df['date'] raises KeyError and nothing is        *)
(* returned; otherwise the week column is written and the bundle returned. *)
CallGenerateInsights ==
    /\ calls' = calls + 1
    /\ IF order_df = <<>>
       THEN /\ pc' = "raised"
            /\ error' = "KeyError: 'date'"
            /\ UNCHANGED <<order_df, insights>>
       ELSE /\ order_df' = with_week(order_df)
            /\ insights' = generate_insights(order_df')
            /\ pc' = "done"
            /\ UNCHANGED error
    /\ UNCHANGED <<lines, temp_chat, session>>

(* The app calls it once, and only with a ledger that is not None *)
GenerateInsights ==
    /\ pc = "ingest"
    /\ order_df # <<>>
    /\ CallGenerateInsights

(* A caller that calls generate_insights itself, on whatever ledger it    *)
(* holds, and again on the same ledger object                              *)
DirectCall ==
    /\ pc \in {"ingest", "done"}
    /\ calls < MaxCalls
    /\ CallGenerateInsights


(* The plot functions return without writing when the table is empty *)
PlotItemHeatmap ==
    /\ pc \in {"ingest", "plotted"}
    /\ order_df # <<>>
    /\ order_df' = plot_item_heatmap(order_df)
    /\ pc' = "plotted"
    /\ UNCHANGED <<insights, lines, calls, error, temp_chat, session>>

PlotItemTrends ==
    /\ pc \in {"ingest", "plotted"}
    /\ order_df # <<>>
    /\ order_df' = plot_item_trends(order_df)
    /\ pc' = "plotted"
    /\ UNCHANGED <<insights, lines, calls, error, temp_chat, session>>

(* generate_insights on a table the plot functions were given before *)
CallAfterPlots ==
    /\ pc = "plotted"
    /\ CallGenerateInsights

(* A run of the script starts with the values of the session's widgets:
   the uploaded chat file (or none), the pasted text and whether a Zelle
   CSV is uploaded *)
StartRun(s, chats, texts) ==
    /\ session[s].pc = "start"
    /\ \E has_chat \in BOOLEAN, chat \in chats, text \in texts, zelle \in BOOLEAN :
           /\ has_chat \/ chat = <<>>
           /\ session' = [session EXCEPT ![s] =
                  [@ EXCEPT !.pc = "upload", !.has_chat = has_chat,
                            !.uploaded_chat = chat, !.whatsapp_input = text,
                            !.uploaded_zelle = zelle]]
    /\ UNCHANGED <<order_df, insights, pc, lines, calls, error, temp_chat>>

(* 'if uploaded_chat:' and open("temp_chat.txt", "w"), which empties the file *)
OpenTempChat(s) ==
    /\ session[s].pc = "upload"
    /\ IF session[s].has_chat
       THEN /\ temp_chat' = <<>>
            /\ session' = [session EXCEPT ![s].pc = "write"]
       ELSE /\ session' = [session EXCEPT ![s].pc = "paste"]
            /\ UNCHANGED temp_chat
    /\ UNCHANGED <<order_df, insights, pc, lines, calls, error>>

(* f.write(...) and the end of the with block: the text is in the file *)
WriteTempChat(s) ==
    /\ session[s].pc = "write"
    /\ temp_chat' = session[s].uploaded_chat
    /\ session' = [session EXCEPT ![s].pc = "parse"]
    /\ UNCHANGED <<order_df, insights, pc, lines, calls, error>>

(* parse_exported_chat("temp_chat.txt") reads whatever the file holds now *)
ParseTempChat(s) ==
    /\ session[s].pc = "parse"
    /\ session' = [session EXCEPT ![s] =
           [@ EXCEPT !.pc = "paste",
                     !.orders_from_file = parse_exported_chat(temp_chat)]]
    /\ UNCHANGED <<order_df, insights, pc, lines, calls, error, temp_chat>>

(* the pasted text, the combination of both sources and the return value *)
CombineOrders(s) ==
    /\ session[s].pc = "paste"
    /\ LET orders_from_text == extract_orders_from_text(session[s].whatsapp_input)
           orders == all_orders(session[s].orders_from_file, orders_from_text)
       IN  session' = [session EXCEPT ![s] =
               [@ EXCEPT !.pc = "returned",
                         !.orders_from_text = orders_from_text,
                         !.whatsapp_df = orders,
                         !.is_None = ReturnsNone(orders)]]
    /\ UNCHANGED <<order_df, insights, pc, lines, calls, error, temp_chat>>

(* 'if uploaded_zelle and whatsapp_df is not None:' and its else branch *)
ShowInsights(s) ==
    /\ session[s].pc = "returned"
    /\ IF session[s].uploaded_zelle /\ ~session[s].is_None
       THEN IF session[s].whatsapp_df = <<>>
            THEN session' = [session EXCEPT ![s].pc = "raised"]
            ELSE LET df == with_week(session[s].whatsapp_df)
                 IN  session' = [session EXCEPT ![s] =
                         [@ EXCEPT !.pc = "shown", !.whatsapp_df = df,
                                   !.insights = generate_insights(df)]]
       ELSE session' = [session EXCEPT ![s].pc = "info"]
    /\ UNCHANGED <<order_df, insights, pc, lines, calls, error, temp_chat>>

RunStep(s) ==
    \/ OpenTempChat(s)
    \/ WriteTempChat(s)
    \/ ParseTempChat(s)
    \/ CombineOrders(s)
    \/ ShowInsights(s)

(* One iteration of the loop of extract_orders_from_text over a text line *)
ExtractLine(line, maxLines) ==
    /\ pc = "ingest"
    /\ Len(lines) < maxLines
    /\ order_df' = order_df \o LineOrders(line)
    /\ lines' = Append(lines, line)
    /\ UNCHANGED <<insights, pc, calls, error, temp_chat, session>>

(* The general flow: two customers, two items, two dates, two quantities *)
SpecMessages ==
    Messages({"Alice", "Bob"}, {3, 9}, ItemLists({"Biryani", "Naan"}, {1, 2}, 2))

Next ==
    \/ \E msg \in SpecMessages : ExtractOrder(msg, MaxLines)
    \/ GenerateInsights

Spec == Init /\ [][Next]_vars

NextCall ==
    \/ \E msg \in SpecMessages : ExtractOrder(msg, MaxLines)
    \/ DirectCall

SpecCall == Init /\ [][NextCall]_vars

(* Inputs for the order of the lines: single-item orders of two customers, *)
(* two items and two dates 27 days apart                                   *)

PermMessages ==
    Messages({"Alice", "Bob"}, {3, 30}, ItemLists({"Biryani", "Naan"}, {1}, 1))

NextPerm ==
    \/ \E msg \in PermMessages : ExtractOrder(msg, MaxPermLines)
    \/ GenerateInsights

SpecPerm == Init /\ [][NextPerm]_vars

(* Trend inputs: one customer, two items, quantities 1 and 2, orders in    *)
(* the calendar weeks starting on days 0, 7, 14 and 28 (never in the week  *)
(* of day 21)                                                              *)

TrendDates == {2, 7, 20, 28}

TrendMessages ==
    Messages({"Alice"}, TrendDates, ItemLists({"Biryani", "Curry"}, {1, 2}, 1))

NextTrend ==
    \/ \E msg \in TrendMessages : ExtractOrder(msg, MaxTrendLines)
    \/ GenerateInsights

SpecTrend == Init /\ [][NextTrend]_vars

(* Lifecycle inputs: two customers, dates 14 and 15 days, 6 and 7 days apart *)

LifeDates == {0, 6, 7, 21, 22}

LifeMessages ==
    Messages({"Alice", "Bob"}, LifeDates, ItemLists({"Biryani", "Naan"}, {1}, 2))

NextLife ==
    \/ \E msg \in LifeMessages : ExtractOrder(msg, MaxLifeLines)
    \/ GenerateInsights

SpecLife == Init /\ [][NextLife]_vars

(* Ranking inputs: Alice's first message orders any selection of the six   *)
(* menu items, each with a quantity of 1..MaxRankQty; Bob then sends at    *)
(* most one single-item order.                                             *)

Menu == <<"Rice", "Biryani", "Soda", "Naan", "Curry", "Salad">>

RECURSIVE MenuItemList(_, _)
MenuItemList(q, k) ==
    IF k > Len(Menu) THEN <<>>
    ELSE (IF q[k] = 0 THEN <<>> ELSE << <<Menu[k], q[k]>> >>) \o MenuItemList(q, k + 1)

MenuOrders ==
    {[items |-> MenuItemList(q, 1), name |-> "Alice", date |-> 3] :
        q \in {f \in [DOMAIN Menu -> 0..MaxRankQty] : \E k \in DOMAIN Menu : f[k] > 0}}

FollowUpOrders ==
    Messages({"Bob"}, {9}, ItemLists({Menu[k] : k \in DOMAIN Menu}, {1}, 1))

LinesOf(df, name) == Cardinality({i \in DOMAIN df : df[i].customer = name})

NextRank ==
    \/ /\ order_df = <<>>
       /\ \E msg \in MenuOrders : ExtractOrder(msg, Len(Menu))
    \/ /\ order_df # <<>>
       /\ LinesOf(order_df, "Bob") = 0
       /\ \E msg \in FollowUpOrders : ExtractOrder(msg, Len(order_df) + 1)
    \/ GenerateInsights

SpecRank == Init /\ [][NextRank]_vars

(* Text adapter: order lines with a zero quantity, an empty name, a part
   without a number, and dates that parse, parse to another day, or do not
   parse; and one line that is not an order *)

IsoDate(y, m, d) == [form |-> "iso", y |-> y, m |-> m, d |-> d]

WordsDate == [form |-> "words", y |-> 0, m |-> 0, d |-> 0]

ParseDates == {IsoDate(2024, 6, 27), IsoDate(2012, 6, 27), IsoDate(2024, 6, 31), WordsDate}

QtyItem(qty, item) == [form |-> "qty_item", qty |-> qty, item |-> item]

WordsPart == [form |-> "words", qty |-> 0, item |-> ""]

ParsePartLists ==
    {<<QtyItem(1, "Naan")>>,
     <<QtyItem(0, "Naan")>>,
     <<QtyItem(2, "Biryani"), QtyItem(1, "Naan")>>,
     <<WordsPart>>,
     <<QtyItem(1, "Naan"), WordsPart>>}

ChatLine == [form |-> "chat", parts |-> <<>>, name |-> "", date |-> WordsDate]

ParseLines ==
    [form : {"order"}, parts : ParsePartLists, name : {"", "Bob"}, date : ParseDates]
        \cup {ChatLine}

NextParse ==
    \/ \E line \in ParseLines : ExtractLine(line, MaxParseLines)
    \/ GenerateInsights

SpecParse == Init /\ [][NextParse]_vars

(* Plots before the call: one item ordered in the last week of a year and
   the first two weeks of the next *)

VizDates == {357, 364, 371}

VizMessages ==
    Messages({"Alice"}, VizDates, ItemLists({"Biryani"}, {1, 2, 3}, 1))

NextViz ==
    \/ \E msg \in VizMessages : ExtractOrder(msg, MaxVizLines)
    \/ PlotItemHeatmap
    \/ PlotItemTrends
    \/ CallAfterPlots
    \/ GenerateInsights

SpecViz == Init /\ [][NextViz]_vars

(* The app script: chat files and pasted texts of one order each, and a
   chat file without any order *)

OrderLine(name, item) ==
    [form |-> "order", parts |-> <<QtyItem(1, item)>>, name |-> name,
     date |-> IsoDate(2024, 6, 27)]

AppTexts ==
    {<<>>, <<OrderLine("Alice", "Biryani")>>, <<OrderLine("Bob", "Naan")>>,
     <<ChatLine>>, <<ChatLine, OrderLine("Bob", "Naan")>>}

(* one session runs the script *)
NextApp ==
    \/ StartRun(1, AppTexts, AppTexts)
    \/ RunStep(1)

SpecApp == Init /\ [][NextApp]_vars

RaceChats == {<<>>, <<OrderLine("Alice", "Biryani")>>, <<OrderLine("Bob", "Naan")>>}

RaceTexts == {<<>>, <<OrderLine("Bob", "Naan")>>}

(* two sessions run the script, their steps interleaved *)
NextRace ==
    \E s \in Sessions :
        \/ StartRun(s, RaceChats, RaceTexts)
        \/ RunStep(s)

SpecRace == Init /\ [][NextRace]_vars

----------------------------------------------------------------------------
(* What the claims speak of, stated on the ledger itself *)

Done == pc = "done"

LedgerItems == {order_df[i].item : i \in DOMAIN order_df}

LedgerCustomers == {order_df[i].customer : i \in DOMAIN order_df}

RECURSIVE LineSum(_)
LineSum(I) ==
    IF I = {} THEN 0
    ELSE LET i == CHOOSE i \in I : TRUE
         IN  order_df[i].quantity + LineSum(I \ {i})

(* The Monday-to-Sunday week of a line, as a week number *)
WeekNo(i) == order_df[i].date \div 7

ObservedWeeks == {WeekNo(i) : i \in DOMAIN order_df}

WeeklyQuantity(item, w) ==
    LineSum({i \in DOMAIN order_df : order_df[i].item = item /\ WeekNo(i) = w})

LastThreeWeeks ==
    LET w3 == SetMax(ObservedWeeks)
        w2 == SetMax(ObservedWeeks \ {w3})
        w1 == SetMax(ObservedWeeks \ {w3, w2})
    IN  <<w1, w2, w3>>

TrendEntries(item) ==
    {k \in DOMAIN insights.increasing_items : insights.increasing_items[k][1] = item}

(* C1: an item is listed in increasing_items exactly when the last three   *)
(* values w1, w2, w3 of its weekly series (one value per week bucket of    *)
(* the ledger, in ascending week order) satisfy w1 < w2 < w3; it is listed *)
(* once, with exactly those three values, each the sum of quantity over    *)
(* the item's lines of that week; with fewer than three week buckets no    *)
(* item is listed.                                                         *)
C1_StrictTrendListed ==
    Done =>
        /\ \A k \in DOMAIN insights.increasing_items :
               insights.increasing_items[k][1] \in LedgerItems
        /\ \A item \in LedgerItems :
               IF Cardinality(ObservedWeeks) < 3
               THEN TrendEntries(item) = {}
               ELSE LET q == [n \in 1..3 |-> WeeklyQuantity(item, LastThreeWeeks[n])]
                    IN  /\ (TrendEntries(item) # {}) <=> (q[1] < q[2] /\ q[2] < q[3])
                        /\ Cardinality(TrendEntries(item)) <= 1
                        /\ \A k \in TrendEntries(item) :
                               insights.increasing_items[k][2] = q

(* Biryani is listed with 1, 2, 3, the 3 being the sum of two lines.       *)
C1_Witness ==
    /\ Done
    /\ \E k \in DOMAIN insights.increasing_items :
           insights.increasing_items[k] = <<"Biryani", <<1, 2, 3>>>>
    /\ \A i \in DOMAIN order_df : order_df[i].quantity <= 2

(* C2: an item with orders in fewer than three distinct week buckets is    *)
(* never listed in increasing_items.                                       *)
C2_FewWeeksNeverListed ==
    Done =>
        \A item \in LedgerItems :
            Cardinality({WeekNo(i) : i \in {j \in DOMAIN order_df : order_df[j].item = item}}) < 3
                => TrendEntries(item) = {}

(* C3: the weekly series of every item has one value for every calendar    *)
(* week from the ledger's earliest week to its latest, 0 where the item    *)
(* has no orders.                                                          *)
C3_DenseSeries ==
    Done =>
        \A item \in LedgerItems :
            LET series == item_trends(order_df)[item]
                first == SetMin(ObservedWeeks)
                last == SetMax(ObservedWeeks)
            IN  /\ Len(series) = last - first + 1
                /\ \A n \in 1..Len(series) : series[n] = WeeklyQuantity(item, first + n - 1)

LinesOfCustomer(c) == {i \in DOMAIN order_df : order_df[i].customer = c}

FirstOrder(c) == SetMin({order_df[i].date : i \in LinesOfCustomer(c)})

LastOrder(c) == SetMax({order_df[i].date : i \in LinesOfCustomer(c)})

ReferenceDate == SetMax({order_df[i].date : i \in DOMAIN order_df})

Recency(c) == ReferenceDate - LastOrder(c)

IsRetained(c) == \E k \in DOMAIN insights.retained_customers : insights.retained_customers[k] = c

ChurnEntries(c) ==
    {k \in DOMAIN insights.churned_customers : insights.churned_customers[k][1] = c}

(* C4: a customer is in retained_customers exactly when the ledger's       *)
(* maximum date minus the customer's latest order date is at most 14 days. *)
C4_RetainedWithin14Days ==
    Done => \A c \in LedgerCustomers : IsRetained(c) <=> (Recency(c) <= 14)

(* A customer whose last order is exactly 14 days old is retained. *)
C4_Witness ==
    Done /\ \E c \in LedgerCustomers : Recency(c) = 14 /\ IsRetained(c)

(* C5: every customer with recency above 14 days has one entry in          *)
(* churned_customers: Trial with exactly one ledger line, otherwise Quick  *)
(* Churn when latest minus earliest order date is under 7 days, otherwise  *)
(* Slow Churn.                                                             *)
C5_ChurnSubtype ==
    Done =>
        \A c \in LedgerCustomers :
            Recency(c) > 14 =>
                /\ Cardinality(ChurnEntries(c)) = 1
                /\ \A k \in ChurnEntries(c) :
                       insights.churned_customers[k][2] =
                           IF Cardinality(LinesOfCustomer(c)) = 1 THEN "Trial"
                           ELSE IF LastOrder(c) - FirstOrder(c) < 7 THEN "Quick Churn"
                           ELSE "Slow Churn"

(* A churned customer with a lifetime of exactly 7 days is a Slow Churn. *)
C5_Witness ==
    /\ Done
    /\ \E c \in LedgerCustomers :
           /\ Recency(c) > 14
           /\ LastOrder(c) - FirstOrder(c) = 7
           /\ \E k \in ChurnEntries(c) : insights.churned_customers[k][2] = "Slow Churn"

(* The whole history of c is one order message: its lines are the lines of *)
(* one chat line, which occurs once.                                       *)
SingleOrder(c) ==
    \E i \in LinesOfCustomer(c) :
        /\ \A j \in LinesOfCustomer(c) : order_df[j].raw_message = order_df[i].raw_message
        /\ Cardinality(LinesOfCustomer(c)) = Len(order_df[i].raw_message.items)

(* C6: a customer whose whole history is a single order message, of any    *)
(* number of items, placed more than 14 days before the reference date is  *)
(* classified Trial.                                                       *)
C6_SingleOrderIsTrial ==
    Done =>
        \A c \in LedgerCustomers :
            (SingleOrder(c) /\ Recency(c) > 14) =>
                \E k \in ChurnEntries(c) : insights.churned_customers[k][2] = "Trial"

(* C7: retained_customers and the keys of churned_customers partition the  *)
(* ledger's customers: every customer is in exactly one of the two, once,  *)
(* and no other name is in either.                                         *)
C7_RetainedChurnedPartition ==
    Done =>
        /\ \A c \in LedgerCustomers :
               LET r == {k \in DOMAIN insights.retained_customers :
                            insights.retained_customers[k] = c}
               IN  Cardinality(r) + Cardinality(ChurnEntries(c)) = 1
        /\ \A k \in DOMAIN insights.retained_customers :
               insights.retained_customers[k] \in LedgerCustomers
        /\ \A k \in DOMAIN insights.churned_customers :
               insights.churned_customers[k][1] \in LedgerCustomers

(* A customer with one order, 14 days old, is retained and has no churn    *)
(* entry.                                                                  *)
C7_Witness ==
    /\ Done
    /\ \E c \in LedgerCustomers :
           /\ Cardinality(LinesOfCustomer(c)) = 1
           /\ Recency(c) = 14
           /\ IsRetained(c)
           /\ ChurnEntries(c) = {}

ItemTotal(item) == LineSum({i \in DOMAIN order_df : order_df[i].item = item})

TopEntries(item) == {k \in DOMAIN insights.top_items : insights.top_items[k][1] = item}

(* C8: top_items has min(5, number of distinct items) entries, one per     *)
(* item, each with the item's total quantity over the ledger, in           *)
(* non-increasing order of total, and no item left out has a total         *)
(* strictly greater than an item included.                                 *)
C8_TopItems ==
    Done =>
        LET top == insights.top_items
            n == Cardinality(LedgerItems)
        IN  /\ Len(top) = IF n < 5 THEN n ELSE 5
            /\ \A k \in DOMAIN top :
                   /\ top[k][1] \in LedgerItems
                   /\ top[k][2] = ItemTotal(top[k][1])
            /\ \A j, k \in DOMAIN top :
                   j < k => (top[j][1] # top[k][1] /\ top[j][2] >= top[k][2])
            /\ \A item \in LedgerItems :
                   TopEntries(item) = {} =>
                       \A k \in DOMAIN top : ItemTotal(item) <= top[k][2]

(* Six items are ordered, the item left out has a smaller total than the   *)
(* fifth entry, and the first entry's total is the sum of two lines.       *)
C8_Witness ==
    /\ Done
    /\ Cardinality(LedgerItems) = 6
    /\ Len(insights.top_items) = 5
    /\ \E item \in LedgerItems :
           TopEntries(item) = {} /\ ItemTotal(item) < insights.top_items[5][2]
    /\ Cardinality({i \in DOMAIN order_df :
                       order_df[i].item = insights.top_items[1][1]}) = 2
    /\ insights.top_items[1][2] > insights.top_items[2][2]

LowStockEntries(item) == {k \in DOMAIN insights.low_stock : insights.low_stock[k][1] = item}

(* C9: an item is in low_stock exactly when it is in top_items and its     *)
(* placeholder stock is below the threshold 10, and it is listed once,     *)
(* with that stock value; no other name is in low_stock.                   *)
C9_LowStock ==
    Done =>
        /\ \A k \in DOMAIN insights.low_stock : insights.low_stock[k][1] \in LedgerItems
        /\ \A item \in LedgerItems :
               /\ (LowStockEntries(item) # {})
                      <=> (TopEntries(item) # {} /\ PLACEHOLDER_STOCK < 10)
               /\ Cardinality(LowStockEntries(item)) <= 1
               /\ \A k \in LowStockEntries(item) :
                      insights.low_stock[k][2] = PLACEHOLDER_STOCK

(* Six items are ordered: the five of top_items are in low_stock with      *)
(* their stock, and the sixth is in neither.                               *)
C9_Witness ==
    /\ Done
    /\ Cardinality(LedgerItems) = 6
    /\ Len(insights.low_stock) = 5
    /\ \E item \in LedgerItems : TopEntries(item) = {} /\ LowStockEntries(item) = {}

PairLines(c, item) ==
    {i \in DOMAIN order_df : order_df[i].customer = c /\ order_df[i].item = item}

ReorderEntries(c, item) ==
    {k \in DOMAIN insights.reordered_items :
        insights.reordered_items[k].customer = c /\ insights.reordered_items[k].item = item}

(* C10: reordered_items has exactly one entry for each (customer, item)    *)
(* pair occurring in more than one ledger line, with order_count the       *)
(* number of those lines, and no entry for a pair occurring once, nor for  *)
(* any other pair.                                                         *)
C10_ReorderedItems ==
    Done =>
        /\ \A k \in DOMAIN insights.reordered_items :
               PairLines(insights.reordered_items[k].customer,
                         insights.reordered_items[k].item) # {}
        /\ \A c \in LedgerCustomers, item \in LedgerItems :
               IF Cardinality(PairLines(c, item)) > 1
               THEN /\ Cardinality(ReorderEntries(c, item)) = 1
                    /\ \A k \in ReorderEntries(c, item) :
                           insights.reordered_items[k].order_count
                               = Cardinality(PairLines(c, item))
               ELSE ReorderEntries(c, item) = {}

(* A pair ordered twice on one date, with two different quantities, is     *)
(* reported with count 2, and a pair ordered once is not reported.         *)
C10_Witness ==
    /\ Done
    /\ \E c \in LedgerCustomers, item \in LedgerItems :
           /\ \E i, j \in PairLines(c, item) :
                  /\ i # j
                  /\ order_df[i].date = order_df[j].date
                  /\ order_df[i].quantity # order_df[j].quantity
           /\ \E k \in ReorderEntries(c, item) : insights.reordered_items[k].order_count = 2
    /\ \E c \in LedgerCustomers, item \in LedgerItems :
           Cardinality(PairLines(c, item)) = 1 /\ ReorderEntries(c, item) = {}

BundleFields ==
    {"increasing_items", "top_items", "low_stock", "retained_customers",
     "churned_customers", "reordered_items"}

(* C11: generate_insights called on an empty ledger does not raise and     *)
(* returns a bundle in which every field is present and empty.             *)
C11_EmptyLedgerBundle ==
    (calls > 0 /\ order_df = <<>>) =>
        /\ pc = "done"
        /\ DOMAIN insights = BundleFields
        /\ \A f \in BundleFields : insights[f] = <<>>

(* C12: a call of generate_insights leaves the caller's ledger as it was:  *)
(* the same records, the same columns, the same values.                    *)
C12_LedgerUnchanged == [][calls' # calls => order_df' = order_df]_vars

(* C13: a second call of generate_insights on the same ledger object       *)
(* returns the bundle the call before it returned.                         *)
C13_SecondCallSameBundle ==
    [][(calls >= 1 /\ calls' = calls + 1 /\ pc = "done") => insights' = insights]_vars

(* Two calls were made on a ledger with a reordered item. *)
C13_Witness ==
    /\ calls = 2
    /\ pc = "done"
    /\ insights.reordered_items # <<>>

(* C15: when a step of generate_insights fails, the outputs of the other   *)
(* steps are still returned.                                               *)
C15_FailureIsolated ==
    pc = "raised" =>
        {"top_items", "low_stock", "retained_customers", "churned_customers",
         "reordered_items"} \subseteq DOMAIN insights

LinePermutations(n) == {p \in [1..n -> 1..n] : \A i, j \in 1..n : p[i] = p[j] => i = j}

Permuted(df, p) == [i \in DOMAIN df |-> df[p[i]]]

(* C14: the bundle is the same, field by field and in the same order, for  *)
(* every permutation of the ledger's lines.                                *)
C14_OrderIrrelevant ==
    Done =>
        \A p \in LinePermutations(Len(order_df)) :
            generate_insights(Permuted(order_df, p)) = insights

(* The ledger lists Naan before Biryani, with equal totals, and a customer *)
(* named Bob before one named Alice.                                       *)
C14_Witness ==
    /\ Done
    /\ Len(order_df) >= 2
    /\ order_df[1].item = "Naan" /\ order_df[2].item = "Biryani"
    /\ order_df[1].customer = "Bob" /\ order_df[2].customer = "Alice"
    /\ Len(insights.top_items) = 2
    /\ insights.top_items[1][2] = insights.top_items[2][2]

----------------------------------------------------------------------------
(* The adapter's records *)

InvalidRecord(row) == row.quantity < 1 \/ row.customer = "" \/ row.item = ""

(* C16: every record the adapter emits has a quantity of at least 1 and a
   non-empty customer and item; a part with a quantity that is not positive,
   or a message with an empty name, yields no record. *)
C16_RecordInvariant ==
    \A i \in DOMAIN order_df : ~InvalidRecord(order_df[i])

DateUnparsed(line) == line.form = "order" /\ parse_date(line.date) = NoDate

(* C17: an order message whose date text does not parse is dropped without
   an error: no record carries it as its message, and the records emitted
   are those of the text with such messages taken out. *)
C17_BadDateDropped ==
    pc = "ingest" =>
        /\ error = ""
        /\ \A i \in DOMAIN order_df : ~DateUnparsed(order_df[i].raw_message)
        /\ order_df = extract_orders_from_text(
                          SelectSeq(lines, LAMBDA line : ~DateUnparsed(line)))

C17_Witness ==
    /\ pc = "ingest"
    /\ Len(lines) = 2
    /\ DateUnparsed(lines[1])
    /\ parse_items(lines[1].parts) # <<>>
    /\ ~DateUnparsed(lines[2])
    /\ order_df # <<>>

(* C18: a call of generate_insights on a ledger holding a record that breaks
   the record invariant (quantity below 1, empty customer or item) raises
   and returns no bundle. *)
C18_InvalidLedgerRejected ==
    (calls > 0 /\ \E i \in DOMAIN order_df : InvalidRecord(order_df[i]))
        => (pc = "raised" /\ insights = <<>>)

(* C19: the week written on a record is the Monday-to-Sunday week holding
   the record's date: it starts on a Monday, holds the date, and two records
   share it exactly when their dates lie in the same Monday-to-Sunday week,
   whatever the other records are. *)
C19_WeekBucket ==
    Done =>
        \A i \in DOMAIN order_df :
            /\ order_df[i].week % 7 = 0
            /\ order_df[i].week <= order_df[i].date
            /\ order_df[i].date <= order_df[i].week + 6
            /\ \A j \in DOMAIN order_df :
                   (order_df[i].week = order_df[j].week)
                       <=> (WeekNo(i) = WeekNo(j))

C19_Witness ==
    /\ Done
    /\ \E i, j, k \in DOMAIN order_df :
           /\ order_df[i].date = 0
           /\ order_df[j].date = 6
           /\ order_df[k].date = 7
           /\ order_df[i].week = order_df[j].week
           /\ order_df[j].week # order_df[k].week

WellFormedLine(line) ==
    /\ line.form = "order"
    /\ line.parts # <<>>
    /\ \A k \in DOMAIN line.parts :
           line.parts[k].form = "qty_item" /\ line.parts[k].qty >= 1
    /\ line.date.form = "iso"
    /\ line.date.m \in 1..12
    /\ line.date.d \in 1..DaysInMonth(line.date.y, line.date.m)

ExpectedRecords(line) ==
    IF line.form = "chat" THEN <<>>
    ELSE [k \in DOMAIN line.parts |->
             [date |-> DayNumber(line.date.y, line.date.m, line.date.d),
              customer |-> line.name,
              item |-> line.parts[k].item,
              quantity |-> line.parts[k].qty]]

RECURSIVE ExpectedOrders(_)
ExpectedOrders(text) ==
    IF text = <<>> THEN <<>>
    ELSE ExpectedRecords(Head(text)) \o ExpectedOrders(Tail(text))

EmittedRecords ==
    [i \in DOMAIN order_df |->
        [date |-> order_df[i].date, customer |-> order_df[i].customer,
         item |-> order_df[i].item, quantity |-> order_df[i].quantity]]

(* C20: for a text of lines 'Order: q1 item1, ..., qk itemk | Name: N |
   Date: YYYY-MM-DD' with positive quantities and of lines that are no
   orders, the records are, line by line and in item order, (the line's
   date, N, item, quantity); the other lines give none. *)
C20_LineRecords ==
    (/\ pc = "ingest"
     /\ \A k \in DOMAIN lines : WellFormedLine(lines[k]) \/ lines[k].form = "chat")
        => EmittedRecords = ExpectedOrders(lines)

----------------------------------------------------------------------------
(* parse_date on its own *)

ValidIsoDate(date_str) ==
    /\ date_str.form = "iso"
    /\ date_str.y \in 1000..9999
    /\ date_str.m \in 1..12
    /\ date_str.d \in 1..DaysInMonth(date_str.y, date_str.m)

(* C21: for every valid date written YYYY-MM-DD, parse_date returns that
   calendar date; the MM-DD-YY pattern tried first never makes it another
   date. *)
C21_IsoDateParsed ==
    \A k \in DOMAIN lines :
        (lines[k].form = "order" /\ ValidIsoDate(lines[k].date))
            => parse_date(lines[k].date)
                   = DayNumber(lines[k].date.y, lines[k].date.m, lines[k].date.d)

----------------------------------------------------------------------------
(* The reference date is the ledger's own last order *)

OrderedOn(c, date) == \E i \in LinesOfCustomer(c) : order_df[i].date = date

(* C26: on a non-empty ledger every customer with an order on the maximum
   date has recency 0 and is retained, so retained_customers is not empty
   and churned_customers does not hold every customer. *)
C26_SomeoneRetained ==
    Done =>
        /\ \A c \in LedgerCustomers :
               OrderedOn(c, ReferenceDate) => (Recency(c) = 0 /\ IsRetained(c))
        /\ insights.retained_customers # <<>>
        /\ \E c \in LedgerCustomers : ChurnEntries(c) = {}

C26_Witness ==
    /\ Done
    /\ \E c, other \in LedgerCustomers :
           /\ OrderedOn(c, ReferenceDate)
           /\ IsRetained(c)
           /\ ChurnEntries(other) # {}
    /\ Len(insights.retained_customers) = 1

----------------------------------------------------------------------------
(* Plots before the call *)

AdapterColumns == {"date", "customer", "item", "quantity", "raw_message"}

(* the ledger as the adapter built it, without the columns written later *)
BuiltLedger == [i \in DOMAIN order_df |-> [f \in AdapterColumns |-> order_df[i][f]]]

Plotted(column) == \A i \in DOMAIN order_df : column \in DOMAIN order_df[i]

(* C23: the bundle generate_insights returns for a ledger is the one it
   returns for the ledger as built, whichever plot functions were given
   the same table before, in any order and any number of times. *)
C23_PlotsDoNotChangeBundle ==
    Done => insights = generate_insights(with_week(BuiltLedger))

C23_Witness ==
    /\ Done
    /\ Plotted("day_of_week")
    /\ insights.increasing_items # <<>>
    /\ \E i, j \in DOMAIN order_df :
           /\ order_df[i].date < order_df[j].date
           /\ isocalendar_week(order_df[i].date) > isocalendar_week(order_df[j].date)

----------------------------------------------------------------------------
(* The sessions of the app *)

Returned(s) == session[s].pc \in {"returned", "shown", "info", "raised"}

FileParsed(s) == session[s].pc \in {"paste", "returned", "shown", "info", "raised"}

OwnUpload(s) == IF session[s].has_chat THEN session[s].uploaded_chat ELSE <<>>

(* C22: when two sessions upload different chat files at the same time,
   each session's orders_from_file are those of its own upload, whatever
   the interleaving of their steps. *)
C22_OwnUploadParsed ==
    \A s, t \in Sessions :
        (/\ s # t
         /\ session[s].has_chat /\ session[t].has_chat
         /\ session[s].uploaded_chat # session[t].uploaded_chat
         /\ FileParsed(s))
            => session[s].orders_from_file = parse_exported_chat(session[s].uploaded_chat)

(* C24: the script reaches generate_insights only with a Zelle CSV and a
   ledger that is not None and has a record: when neither the file nor
   the pasted text gave an order the function returned None, so the call
   never meets an empty ledger. *)
C24_InsightsOnlyWithOrders ==
    \A s \in Sessions :
        /\ session[s].pc \in {"shown", "raised"} =>
               /\ session[s].uploaded_zelle
               /\ ~session[s].is_None
               /\ Len(session[s].whatsapp_df) >= 1
        /\ (/\ Returned(s)
            /\ session[s].orders_from_file = <<>>
            /\ session[s].orders_from_text = <<>>) => session[s].is_None
        /\ session[s].pc # "raised"

C24_Witness ==
    \E s \in Sessions :
        /\ session[s].pc = "info"
        /\ session[s].uploaded_zelle
        /\ session[s].has_chat
        /\ session[s].uploaded_chat # <<>>
        /\ session[s].is_None

ReturnedLedger(s) ==
    [i \in DOMAIN session[s].whatsapp_df |->
        [f \in AdapterColumns |-> session[s].whatsapp_df[i][f]]]

Reordered(s, customer, item) ==
    \E k \in DOMAIN session[s].insights.reordered_items :
        /\ session[s].insights.reordered_items[k].customer = customer
        /\ session[s].insights.reordered_items[k].item = item

(* C25: the ledger returned is the orders of the uploaded file followed by
   the orders of the pasted text, nothing removed: its length is the sum
   of both, and an order given through both sources has two lines per
   item, whose (customer, item) pair is then in reordered_items. *)
C25_BothSourcesKept ==
    \A s \in Sessions :
        (Returned(s) /\ ~session[s].is_None) =>
            LET from_file == parse_exported_chat(OwnUpload(s))
                from_text == extract_orders_from_text(session[s].whatsapp_input)
                ledger == ReturnedLedger(s)
            IN  /\ ledger = from_file \o from_text
                /\ Len(ledger) = Len(from_file) + Len(from_text)
                /\ session[s].pc = "shown" =>
                       \A i \in DOMAIN from_file, j \in DOMAIN from_text :
                           from_file[i] = from_text[j] =>
                               /\ ledger[i] = ledger[Len(from_file) + j]
                               /\ Reordered(s, from_file[i].customer, from_file[i].item)

C25_Witness ==
    \E s \in Sessions :
        /\ session[s].pc = "shown"
        /\ session[s].has_chat
        /\ session[s].uploaded_chat # <<>>
        /\ session[s].uploaded_chat = session[s].whatsapp_input
        /\ Len(session[s].whatsapp_df) = 2
        /\ session[s].insights.reordered_items # <<>>

====
